---- MODULE Spec2Model ----
(***************************************************************************)
(* A model of the block-processing core of beacon-kit:                     *)
(*   - Service.ProcessBeaconBlock / ValidateExecutionPayloadOnBlk /        *)
(*     PostBlockProcess            (beacon/blockchain/process.go)          *)
(*   - Service.sendPostBlockFCU / sendFCU  (forkchoice notifier)           *)
(*   - logs.Cache                  (beacon/execution/logs/cache.go)        *)
(*                                                                         *)
(* Spec      : the caller invokes ProcessBeaconBlock and PostBlockProcess, *)
(*             one call at a time; the goroutines of one                   *)
(*             ProcessBeaconBlock call interleave freely.                  *)
(* CacheSpec : arbitrary sequences of calls on one logs.Cache.             *)
(***************************************************************************)
EXTENDS Integers, Sequences, FiniteSets, TLC

\* ------------------------------------------------------------------ bounds
\* Top-level calls (ProcessBeaconBlock / PostBlockProcess) made by the caller.
MaxCalls == 2
\* Distinct execution-payload block hashes carried by incoming blocks.
NumHashes == 2
\* Largest small block number passed to the cache (besides 100 and 101).
MaxBlock == 1
\* Distinct LogValueContainer values.
NumContainers == 2
\* Containers a cache holds at most (finalStore and processingStore together).
MaxEntries == 3
\* Largest slot of a beacon state handed to the payload verifier.
MaxSlot == 4
\* Distinct RANDAO mix values.
NumMixes == 2
\* Block events the feed delivers to the deposit service.
MaxEvents == 2
\* Largest slot of a block in an event.
MaxEventSlot == 2
\* Width in bits of the unsigned integers of the model (math.U64 has 64).
UintBits == 3

\* The zero value of primitives.ExecutionHash.
ZeroHash == 0
\* Block hashes of the payloads of incoming blocks.
PayloadHashes == 1..NumHashes
\* st.GetLatestExecutionPayload().GetBlockHash(): the hash recorded in the state.
LatestHash == NumHashes + 1

\* ------------------------------------------------------------------ blocks
\* The shapes of a ReadOnlyBeaconBlock the code distinguishes: the nil
\* sentinel (blk.IsNil()), a block whose body IsNil(), a block whose body has
\* an execution payload that IsNil(), and a block with a payload.
Blocks ==
    {[shape |-> s, hash |-> ZeroHash] : s \in {"nilBlock", "nilBody", "nilPayload"}}
        \cup {[shape |-> "full", hash |-> h] : h \in PayloadHashes}

\* blk.IsNil()
BlkIsNil(b) == b.shape = "nilBlock"
\* blk.GetBody().IsNil(); the accessors of a nil sentinel yield nil.
BodyIsNil(b) == b.shape \in {"nilBlock", "nilBody"}
\* blk.GetBody().GetExecutionPayload().IsNil()
PayloadIsNil(b) == b.shape \in {"nilBlock", "nilBody", "nilPayload"}

\* The value of a variable of interface type ExecutionPayload: the zero
\* interface (never assigned), a payload for which IsNil() holds (a non-nil
\* interface value, whose GetBlockHash() is taken to yield the zero hash), or
\* a payload.
UnsetPayload == [kind |-> "unset", hash |-> ZeroHash]
NilPayload == [kind |-> "nil", hash |-> ZeroHash]
RealPayload(h) == [kind |-> "payload", hash |-> h]

\* ------------------------------------------------------------------ tasks
VEP == "ValidateExecutionPayloadOnBlk"
VB == "ValidateBlock"
PBL == "ProcessBlobs"
PBK == "ProcessBlock"
Wave1 == {VEP, VB}
Wave2 == {PBL, PBK}
Tasks == Wave1 \cup Wave2
Waves == {Wave1, Wave2}

\* The context each task of ProcessBeaconBlock works with: the payload
\* validation gets ctx, ValidateBlock gets st = BeaconState(groupCtx),
\* ProcessBlobs gets avs = AvailabilityStore(ctx), ProcessBlock gets
\* BeaconState(ctx).
TaskContext(t) == IF t = VB THEN "groupCtx" ELSE "ctx"

IsErr(r) == r \notin {"none", "running", "nil"}
Finished(r) == r \notin {"none", "running"}

VARIABLES
    \* ---- the caller and the call in progress
    callsMade,      \* number of top-level calls started
    fn,             \* "none" | "ProcessBeaconBlock" | "PostBlockProcess"
    blk,            \* the block passed to the call
    pc,             \* position of the calling goroutine
    ret,            \* "pending" | "nil" | the error returned
    trace,          \* collaborator calls of this call, in order: <<call, result>>
    \* ---- ProcessBeaconBlock: errgroup and its goroutines
    task,           \* task -> "none" | "running" | "nil" | its error
    ptPc,           \* position inside ValidateExecutionPayloadOnBlk
    gErr,           \* errgroup.Group.err ("none" when unset)
    groupCtxDone,   \* groupCtx is cancelled
    mut,            \* stores mutated during this call
    \* ---- PostBlockProcess
    payloadVar,     \* the local variable `payload`
    logged,         \* errors logged during this call
    fcuTrace,       \* calls made inside sendPostBlockFCU during this call
    \* ---- collaborators, across calls
    fcNodes,        \* hashes inserted into the forkchoice store
    fcuLog,         \* forkchoice-update requests received by the engine
    logRuns,        \* hashes for which log processing was triggered
    \* ---- logs.Cache
    finalStore,
    lastFinalizedBlock,
    processingStore,
    \* ---- history of the cache calls (not read by the cache operations)
    lastOp,         \* the last call: [op, arg]
    prevOp,         \* the name of the call before it
    opRet,          \* what the last call returned
    pre,            \* the cache fields, and pushedSince, before the last call
    pre2,           \* the cache fields before the call before it
    mark,           \* finalStore and lastFinalizedBlock when the cache was
                    \* made or SetLastFinalizedBlock last returned
    pushedSince,    \* containers pushed since the last SetLastFinalizedBlock
                    \* or Rollback, in push order
    \* ---- PayloadVerifier.VerifyPayload
    vpSt,           \* the beacon state passed to it
    vpPayload,      \* the execution payload passed to it
    vpPc,           \* "input" | "returned"
    vpOut,          \* what it returned, and the state reads it made
    \* ---- deposit.Service
    dsPc,           \* "new" | "select" | "getDeposits" | "enqueue" | "exited":
                    \* where the service and its goroutine are
    dsCtxDone,      \* the ctx passed to Start is cancelled
    dsSubscribed,   \* calls of feed.Subscribe
    dsUnsubscribed, \* calls of sub.Unsubscribe
    dsReceived,     \* events received from ch so far
    dsEvents,       \* the events received from ch, in order
    dsEvent,        \* the event being handled
    dsDeposits,     \* the deposits GetDeposits returned for it
    dsCalls,        \* calls of GetDeposits and EnqueueDeposits, in order
    dsStore,        \* the deposit store: the deposits enqueued, in order
    dsLogged        \* events whose handling failed and was logged, in order

pipeVars == <<callsMade, fn, blk, pc, ret, trace, task, ptPc, gErr, groupCtxDone,
              mut, payloadVar, logged, fcuTrace, fcNodes, fcuLog, logRuns>>
cacheVars == <<finalStore, lastFinalizedBlock, processingStore, lastOp, prevOp,
               opRet, pre, pre2, mark, pushedSince>>
verifyVars == <<vpSt, vpPayload, vpPc, vpOut>>
depositVars == <<dsPc, dsCtxDone, dsSubscribed, dsUnsubscribed, dsReceived, dsEvents,
                 dsEvent, dsDeposits, dsCalls, dsStore, dsLogged>>
vars == <<pipeVars, cacheVars, verifyVars, depositVars>>

NoTasks == [t \in Tasks |-> "none"]

Called(c) == \E i \in 1..Len(trace) : trace[i][1] = c
NumCalled(c) == Cardinality({i \in 1..Len(trace) : trace[i][1] = c})

\* ------------------------------------------------------------------ Init
\* Arguments of the cache calls.
BlockNumbers == (0..MaxBlock) \cup {100, 101}
Containers == 1..NumContainers

CacheFields == [finalStore |-> finalStore, lastFinalizedBlock |-> lastFinalizedBlock,
                processingStore |-> processingStore]
NewCache == [finalStore |-> <<>>, lastFinalizedBlock |-> 0, processingStore |-> <<>>]
NoRet == [bool |-> FALSE, num |-> 0, err |-> "none"]

\* A new Cache: the zero value of the struct.
CacheInit ==
    /\ finalStore = <<>>
    /\ lastFinalizedBlock = 0
    /\ processingStore = <<>>
    /\ lastOp = [op |-> "new", arg |-> 0]
    /\ prevOp = "new"
    /\ opRet = NoRet
    /\ pre = [fields |-> NewCache, pushedSince |-> <<>>]
    /\ pre2 = NewCache
    /\ mark = [finalStore |-> <<>>, lastFinalizedBlock |-> 0]
    /\ pushedSince = <<>>

PipeInit ==
    /\ callsMade = 0
    /\ fn = "none"
    /\ blk = [shape |-> "nilBlock", hash |-> ZeroHash]
    /\ pc = "idle"
    /\ ret = "pending"
    /\ trace = <<>>
    /\ task = NoTasks
    /\ ptPc = "none"
    /\ gErr = "none"
    /\ groupCtxDone = FALSE
    /\ mut = {}
    /\ payloadVar = UnsetPayload
    /\ logged = {}
    /\ fcuTrace = <<>>
    /\ fcNodes = {}
    /\ fcuLog = <<>>
    /\ logRuns = <<>>

\* ------------------------------------------------------- PayloadVerifier
\* The chain spec the verifier is built with: pv.cs.SlotToEpoch,
\* pv.cs.EpochsPerHistoricalVector(), pv.cs.MaxWithdrawalsPerPayload().
SlotsPerEpoch == 2
EpochsPerHistoricalVector == 2
MaxWithdrawalsPerPayload == 16
SlotToEpoch(slot) == slot \div SlotsPerEpoch

Mixes == 1..NumMixes
StateReads == <<"GetLatestExecutionPayloadHeader", "GetSlot", "GetRandaoMixAtIndex">>

\* A beacon state as the verifier reads it: the block hash of the latest
\* execution payload header, the slot, the RANDAO mixes by index, and the
\* reads that return an error.
VerifierStates ==
    [headerHash : PayloadHashes,
     slot : 0..MaxSlot,
     randaoMixes : [0..(EpochsPerHistoricalVector - 1) -> Mixes],
     failing : SUBSET {StateReads[i] : i \in 1..3}]

\* An execution payload as the verifier reads it; withdrawals is
\* len(payload.GetWithdrawals()).
VerifierPayloads ==
    [parentHash : PayloadHashes,
     prevRandao : Mixes,
     withdrawals : {0, MaxWithdrawalsPerPayload - 1, MaxWithdrawalsPerPayload,
                    MaxWithdrawalsPerPayload + 1}]

\* An error with the two values formatted into it, and the state reads made.
Out(err, first, second, nReads) ==
    [err |-> err, first |-> first, second |-> second, reads |-> SubSeq(StateReads, 1, nReads)]
NoOut == [err |-> "none", first |-> 0, second |-> 0, reads |-> <<>>]

\* Variant: the bound on the withdrawals is exclusive.
TooManyWithdrawals_Exclusive(payload) ==
    payload.withdrawals >= MaxWithdrawalsPerPayload

\* uint64(len(payload.GetWithdrawals())) > pv.cs.MaxWithdrawalsPerPayload()
TooManyWithdrawals(payload) == payload.withdrawals > MaxWithdrawalsPerPayload

\* Variant: the number of withdrawals is verified before the parent hash and
\* the RANDAO mix, after all state reads.
VerifyPayload_WithdrawalsFirst(st, payload) ==
    IF "GetLatestExecutionPayloadHeader" \in st.failing
    THEN Out("ErrGetLatestExecutionPayloadHeader", 0, 0, 1)
    ELSE IF "GetSlot" \in st.failing
    THEN Out("ErrGetSlot", 0, 0, 2)
    ELSE IF "GetRandaoMixAtIndex" \in st.failing
    THEN Out("ErrGetRandaoMixAtIndex", 0, 0, 3)
    ELSE IF payload.withdrawals > MaxWithdrawalsPerPayload
    THEN Out("ErrTooManyWithdrawals", MaxWithdrawalsPerPayload, payload.withdrawals, 3)
    ELSE IF st.headerHash # payload.parentHash
    THEN Out("ErrParentNotFinalized", payload.parentHash, st.headerHash, 3)
    ELSE IF payload.prevRandao #
            st.randaoMixes[SlotToEpoch(st.slot) % EpochsPerHistoricalVector]
    THEN Out("ErrRandaoMismatch",
             st.randaoMixes[SlotToEpoch(st.slot) % EpochsPerHistoricalVector],
             payload.prevRandao, 3)
    ELSE Out("nil", 0, 0, 3)

\* PayloadVerifier.VerifyPayload(st, payload)
VerifyPayload(st, payload) ==
    IF "GetLatestExecutionPayloadHeader" \in st.failing
    THEN Out("ErrGetLatestExecutionPayloadHeader", 0, 0, 1)
    ELSE IF st.headerHash # payload.parentHash
    THEN Out("ErrParentNotFinalized", payload.parentHash, st.headerHash, 1)
    ELSE IF "GetSlot" \in st.failing
    THEN Out("ErrGetSlot", 0, 0, 2)
    ELSE IF "GetRandaoMixAtIndex" \in st.failing
    THEN Out("ErrGetRandaoMixAtIndex", 0, 0, 3)
    ELSE LET expectedMix ==
                 st.randaoMixes[SlotToEpoch(st.slot) % EpochsPerHistoricalVector]
         IN IF payload.prevRandao # expectedMix
            THEN Out("ErrRandaoMismatch", expectedMix, payload.prevRandao, 3)
            ELSE IF TooManyWithdrawals(payload)
            THEN Out("ErrTooManyWithdrawals", MaxWithdrawalsPerPayload,
                     payload.withdrawals, 3)
            ELSE Out("nil", 0, 0, 3)

\* No verification is in progress.
VerifyIdle ==
    /\ vpSt = [headerHash |-> 1, slot |-> 0,
               randaoMixes |-> [i \in 0..(EpochsPerHistoricalVector - 1) |-> 1],
               failing |-> {}]
    /\ vpPayload = [parentHash |-> 1, prevRandao |-> 1, withdrawals |-> 0]
    /\ vpPc = "returned"
    /\ vpOut = NoOut

\* NewService: nothing subscribed, nothing handled.
NoEvent == [n |-> 0, slot |-> 0]
NoDeposits == [event |-> 0, slot |-> 0]
DepositInit ==
    /\ dsPc = "new"
    /\ dsCtxDone = FALSE
    /\ dsSubscribed = 0
    /\ dsUnsubscribed = 0
    /\ dsReceived = 0
    /\ dsEvents = <<>>
    /\ dsEvent = NoEvent
    /\ dsDeposits = NoDeposits
    /\ dsCalls = <<>>
    /\ dsStore = <<>>
    /\ dsLogged = <<>>

Init == PipeInit /\ CacheInit /\ VerifyIdle /\ DepositInit

\* A caller is about to verify some payload against some state.
VerifyInit ==
    /\ PipeInit /\ CacheInit /\ DepositInit
    /\ vpSt \in VerifierStates
    /\ vpPayload \in VerifierPayloads
    /\ vpPc = "input"
    /\ vpOut = NoOut

CallVerifyPayload ==
    /\ vpPc = "input"
    /\ vpOut' = VerifyPayload(vpSt, vpPayload)
    /\ vpPc' = "returned"
    /\ UNCHANGED <<vpSt, vpPayload, pipeVars, cacheVars, depositVars>>

VerifyNext == CallVerifyPayload

VerifySpec == VerifyInit /\ [][VerifyNext]_vars

\* ------------------------------------------------- errgroup (x/sync/errgroup)
\* g.Go's wrapper around a task that returned r: the first non-nil error is
\* kept (errOnce) and cancels the group context.
GroupErr(r) == IF IsErr(r) /\ gErr = "none" THEN r ELSE gErr
GroupCtxAfter(r) == groupCtxDone \/ IsErr(r)

\* A goroutine of the group returns r.
TaskReturns(t, r) ==
    /\ task' = [task EXCEPT ![t] = r]
    /\ gErr' = GroupErr(r)
    /\ groupCtxDone' = GroupCtxAfter(r)

\* g.Wait() can return: every goroutine started so far has returned.
WaitReturns(wave) == \A t \in wave : Finished(task[t])

\* ------------------------------------------------------- ProcessBeaconBlock
\* The caller may start a call when none is in progress.
CanCall == pc \in {"idle", "done"} /\ callsMade < MaxCalls

\* Entry of ProcessBeaconBlock: errgroup.WithContext, and the two g.Go of
\* wave 1.
StartProcessBeaconBlock ==
    /\ CanCall
    /\ \E b \in Blocks : blk' = b
    /\ callsMade' = callsMade + 1
    /\ fn' = "ProcessBeaconBlock"
    /\ pc' = "wait1"
    /\ ret' = "pending"
    /\ trace' = <<>>
    /\ task' = [t \in Tasks |-> IF t \in Wave1 THEN "running" ELSE "none"]
    /\ ptPc' = "nilChecks"
    /\ gErr' = "none"
    /\ groupCtxDone' = FALSE
    /\ mut' = {}
    /\ payloadVar' = UnsetPayload
    /\ logged' = {}
    /\ fcuTrace' = <<>>
    /\ UNCHANGED <<fcNodes, fcuLog, logRuns, cacheVars, verifyVars, depositVars>>

\* Variant: only the payload is looked at, through the accessors of the body.
VEP_NilCheckResult_PayloadOnly(b) == IF PayloadIsNil(b) THEN "ErrNilPayload" ELSE "nil"

\* ValidateExecutionPayloadOnBlk: the nil checks of the body and the payload.
VEP_NilCheckResult(b) ==
    IF BodyIsNil(b) THEN "ErrNilBlkBody"
    ELSE IF PayloadIsNil(b) THEN "ErrNilPayload"
    ELSE "nil"

VEP_NilChecks ==
    /\ fn = "ProcessBeaconBlock" /\ task[VEP] = "running" /\ ptPc = "nilChecks"
    /\ IF VEP_NilCheckResult(blk) = "nil"
       THEN /\ ptPc' = "validatePayload"
            /\ UNCHANGED <<task, gErr, groupCtxDone>>
       ELSE /\ ptPc' = "returned"
            /\ TaskReturns(VEP, VEP_NilCheckResult(blk))
    /\ UNCHANGED <<callsMade, fn, blk, pc, ret, trace, mut, payloadVar, logged,
                   fcNodes, fcuLog, logRuns, fcuTrace, cacheVars, verifyVars, depositVars>>

\* Variant: a failed payload verification does not stop the validation.
VEP_AfterValidatePayload_GoesOn(r) == "notifyNewPayload"

\* ValidateExecutionPayloadOnBlk: s.pv.ValidatePayload(...), which may fail.
VEP_AfterValidatePayload(r) == IF r = "nil" THEN "notifyNewPayload" ELSE "returned"

VEP_ValidatePayload ==
    /\ fn = "ProcessBeaconBlock" /\ task[VEP] = "running" /\ ptPc = "validatePayload"
    /\ \E r \in {"nil", "ErrValidatePayload"} :
        /\ trace' = Append(trace, <<"ValidatePayload", r>>)
        /\ ptPc' = VEP_AfterValidatePayload(r)
        /\ IF VEP_AfterValidatePayload(r) = "returned"
           THEN TaskReturns(VEP, r)
           ELSE UNCHANGED <<task, gErr, groupCtxDone>>
    /\ UNCHANGED <<callsMade, fn, blk, pc, ret, mut, payloadVar, logged,
                   fcNodes, fcuLog, logRuns, fcuTrace, cacheVars, verifyVars, depositVars>>

\* Variant: the validity flag is looked at before the error.
NotifyNewPayloadResult_FlagFirst(isValidPayload, err) ==
    IF ~isValidPayload THEN "ErrInvalidPayload" ELSE err

\* What ValidateExecutionPayloadOnBlk returns after NotifyNewPayload returned
\* (isValidPayload, err).
NotifyNewPayloadResult(isValidPayload, err) ==
    IF err # "nil" THEN err
    ELSE IF ~isValidPayload THEN "ErrInvalidPayload"
    ELSE "nil"

VEP_NotifyNewPayload ==
    /\ fn = "ProcessBeaconBlock" /\ task[VEP] = "running" /\ ptPc = "notifyNewPayload"
    /\ \E isValidPayload \in BOOLEAN, err \in {"nil", "ErrEngineRPC"} :
        /\ trace' = Append(trace,
               <<"NotifyNewPayload", NotifyNewPayloadResult(isValidPayload, err),
                 [isValidPayload |-> isValidPayload, err |-> err]>>)
        /\ TaskReturns(VEP, NotifyNewPayloadResult(isValidPayload, err))
    /\ ptPc' = "returned"
    /\ UNCHANGED <<callsMade, fn, blk, pc, ret, mut, payloadVar, logged,
                   fcNodes, fcuLog, logRuns, fcuTrace, cacheVars, verifyVars, depositVars>>

\* The second goroutine of wave 1: s.bv.ValidateBlock(st, blk).
ValidateBlockTask ==
    /\ fn = "ProcessBeaconBlock" /\ task[VB] = "running"
    /\ \E r \in {"nil", "ErrValidateBlock"} :
        /\ trace' = Append(trace, <<"ValidateBlock", r>>)
        /\ TaskReturns(VB, r)
    /\ UNCHANGED <<callsMade, fn, blk, pc, ret, ptPc, mut, payloadVar, logged,
                   fcNodes, fcuLog, logRuns, fcuTrace, cacheVars, verifyVars, depositVars>>

\* Variant: the error of wave 1 is not looked at.
Wave1Passed_IgnoresError == TRUE

\* The first g.Wait(): it cancels groupCtx, and on an error the call returns
\* it; otherwise the two g.Go of wave 2 follow.
Wave1Passed == gErr = "none"

Wait1 ==
    /\ fn = "ProcessBeaconBlock" /\ pc = "wait1"
    /\ WaitReturns(Wave1)
    /\ groupCtxDone' = TRUE
    /\ IF Wave1Passed
       THEN /\ pc' = "wait2"
            /\ task' = [t \in Tasks |-> IF t \in Wave2 THEN "running" ELSE task[t]]
            /\ ret' = ret
       ELSE /\ pc' = "done"
            /\ ret' = gErr
            /\ task' = task
    /\ UNCHANGED <<callsMade, fn, blk, trace, ptPc, gErr, mut, payloadVar, logged,
                   fcNodes, fcuLog, logRuns, fcuTrace, cacheVars, verifyVars, depositVars>>

\* Wave 2: s.sp.ProcessBlobs(avs, blk, blobs) writes the availability store.
ProcessBlobsTask ==
    /\ fn = "ProcessBeaconBlock" /\ task[PBL] = "running"
    /\ \E r \in {"nil", "ErrProcessBlobs"}, wrote \in BOOLEAN :
        /\ r = "nil" => wrote
        /\ trace' = Append(trace, <<"ProcessBlobs", r>>)
        /\ mut' = IF wrote THEN mut \cup {"availabilityStore"} ELSE mut
        /\ TaskReturns(PBL, r)
    /\ UNCHANGED <<callsMade, fn, blk, pc, ret, ptPc, payloadVar, logged,
                   fcNodes, fcuLog, logRuns, fcuTrace, cacheVars, verifyVars, depositVars>>

\* Wave 2: s.sp.ProcessBlock(s.BeaconState(ctx), blk) writes the beacon state.
ProcessBlockTask ==
    /\ fn = "ProcessBeaconBlock" /\ task[PBK] = "running"
    /\ \E r \in {"nil", "ErrProcessBlock"}, wrote \in BOOLEAN :
        /\ r = "nil" => wrote
        /\ trace' = Append(trace, <<"ProcessBlock", r>>)
        /\ mut' = IF wrote THEN mut \cup {"beaconState"} ELSE mut
        /\ TaskReturns(PBK, r)
    /\ UNCHANGED <<callsMade, fn, blk, pc, ret, ptPc, payloadVar, logged,
                   fcNodes, fcuLog, logRuns, fcuTrace, cacheVars, verifyVars, depositVars>>

\* Variant: the second Wait's error is dropped.
Wait2Result_DropsError == "nil"

\* Variant: ProcessBeaconBlock notifies the engine of the new head itself
\* before it returns.
Wait2_SendsFCU ==
    /\ fn = "ProcessBeaconBlock" /\ pc = "wait2"
    /\ \A t \in Wave2 : Finished(task[t])
    /\ groupCtxDone' = TRUE
    /\ ret' = IF gErr # "none" THEN gErr ELSE "nil"
    /\ pc' = "done"
    /\ fcuLog' = Append(fcuLog, [HeadBlockHash |-> blk.hash,
                                 SafeBlockHash |-> LatestHash,
                                 FinalizedBlockHash |-> LatestHash])
    /\ UNCHANGED <<callsMade, fn, blk, trace, task, ptPc, gErr, mut, payloadVar,
                   logged, fcNodes, logRuns, fcuTrace, cacheVars, verifyVars, depositVars>>

\* The second g.Wait() and the return of ProcessBeaconBlock.
Wait2Result == IF gErr # "none" THEN gErr ELSE "nil"

Wait2 ==
    /\ fn = "ProcessBeaconBlock" /\ pc = "wait2"
    /\ WaitReturns(Wave2)
    /\ groupCtxDone' = TRUE
    /\ ret' = Wait2Result
    /\ pc' = "done"
    /\ UNCHANGED <<callsMade, fn, blk, trace, task, ptPc, gErr, mut, payloadVar,
                   logged, fcNodes, fcuLog, logRuns, fcuTrace, cacheVars, verifyVars, depositVars>>

\* --------------------------------------------------------- PostBlockProcess
\* Entry of PostBlockProcess: `payload` holds the zero interface and the
\* deferred call of sendPostBlockFCU is registered.
StartPostBlockProcess ==
    /\ CanCall
    /\ \E b \in Blocks : blk' = b
    /\ callsMade' = callsMade + 1
    /\ fn' = "PostBlockProcess"
    /\ pc' = "nilChecks"
    /\ ret' = "pending"
    /\ trace' = <<>>
    /\ task' = NoTasks
    /\ ptPc' = "none"
    /\ gErr' = "none"
    /\ groupCtxDone' = FALSE
    /\ mut' = {}
    /\ payloadVar' = UnsetPayload
    /\ logged' = {}
    /\ fcuTrace' = <<>>
    /\ UNCHANGED <<fcNodes, fcuLog, logRuns, cacheVars, verifyVars, depositVars>>

\* The value `payload` holds once the nil checks are over: it is assigned
\* only when the block and its body are not nil.
PBP_PayloadAfterChecks(b) ==
    IF BlkIsNil(b) \/ BodyIsNil(b) THEN UnsetPayload
    ELSE IF PayloadIsNil(b) THEN NilPayload
    ELSE RealPayload(b.hash)

\* Where the nil checks lead: to a `return nil` (then the deferred call) or on
\* to InsertNode.
PBP_AfterNilChecks(b) ==
    IF BlkIsNil(b) \/ BodyIsNil(b) \/ PayloadIsNil(b) THEN "deferred" ELSE "insertNode"

PBP_NilChecks ==
    /\ fn = "PostBlockProcess" /\ pc = "nilChecks"
    /\ payloadVar' = PBP_PayloadAfterChecks(blk)
    /\ pc' = PBP_AfterNilChecks(blk)
    /\ ret' = IF PBP_AfterNilChecks(blk) = "deferred" THEN "nil" ELSE ret
    /\ UNCHANGED <<callsMade, fn, blk, trace, task, ptPc, gErr, groupCtxDone, mut,
                   logged, fcNodes, fcuLog, logRuns, fcuTrace, cacheVars, verifyVars, depositVars>>

\* Variant: the forkchoice update is a last statement instead of a deferred
\* call, so the early return on an InsertNode error skips it.
PBP_AfterInsertNode_NotDeferred(r) == IF r = "nil" THEN "processLogs" ELSE "done"

\* Variant: the logs are processed whatever InsertNode returned.
PBP_AfterInsertNode_LogsAnyway(r) == "processLogs"

\* s.ForkchoiceStore(ctx).InsertNode(payloadBlockHash): an error is returned.
PBP_AfterInsertNode(r) == IF r = "nil" THEN "processLogs" ELSE "deferred"

PBP_InsertNode ==
    /\ fn = "PostBlockProcess" /\ pc = "insertNode"
    /\ \E r \in {"nil", "ErrInsertNode"} :
        /\ trace' = Append(trace, <<"InsertNode", r>>)
        /\ fcNodes' = IF r = "nil" THEN fcNodes \cup {payloadVar.hash} ELSE fcNodes
        /\ pc' = PBP_AfterInsertNode(r)
        /\ ret' = IF r = "nil" THEN ret ELSE r
    /\ UNCHANGED <<callsMade, fn, blk, task, ptPc, gErr, groupCtxDone, mut,
                   payloadVar, logged, fcuLog, logRuns, fcuTrace, cacheVars, verifyVars, depositVars>>

\* Variant: the error of the log processing is logged only.
PBP_ProcessLogsReturn_Swallows(r) == "nil"

\* s.es.ProcessLogsInETH1Block(ctx, payloadBlockHash): an error is logged and
\* returned.
PBP_ProcessLogsReturn(r) == r

PBP_ProcessLogsLogged(r) == IF r = "nil" THEN {} ELSE {"failed to process logs"}

PBP_ProcessLogs ==
    /\ fn = "PostBlockProcess" /\ pc = "processLogs"
    /\ \E r \in {"nil", "ErrProcessLogs"} :
        /\ trace' = Append(trace, <<"ProcessLogsInETH1Block", r>>)
        /\ logRuns' = Append(logRuns, payloadVar.hash)
        /\ logged' = logged \cup PBP_ProcessLogsLogged(r)
        /\ ret' = PBP_ProcessLogsReturn(r)
    /\ pc' = "deferred"
    /\ UNCHANGED <<callsMade, fn, blk, task, ptPc, gErr, groupCtxDone, mut,
                   payloadVar, fcNodes, fcuLog, fcuTrace, cacheVars, verifyVars, depositVars>>

\* ------------------------------------------------------ forkchoice notifier
\* sendPostBlockFCU's head hash: the payload's block hash when the interface
\* value is not nil, otherwise the hash of the state's latest execution
\* payload, if that lookup succeeds (stOk).
FCUHead(p, stOk) ==
    IF p.kind # "unset" THEN [ok |-> TRUE, hash |-> p.hash]
    ELSE IF stOk THEN [ok |-> TRUE, hash |-> LatestHash]
    ELSE [ok |-> FALSE, hash |-> ZeroHash]

\* Variant: the head is also sent as the safe block.
FCURequest_SafeIsHead(headEth1Hash) ==
    [HeadBlockHash |-> headEth1Hash,
     SafeBlockHash |-> headEth1Hash,
     FinalizedBlockHash |-> LatestHash]

\* The request sendFCU builds for a head hash.
FCURequest(headEth1Hash) ==
    [HeadBlockHash |-> headEth1Hash,
     SafeBlockHash |-> LatestHash,
     FinalizedBlockHash |-> LatestHash]

\* sendFCU's error: the state lookup's, else the engine's.
SendFCUError(stOk, engErr) == IF ~stOk THEN "ErrGetLatestExecutionPayload" ELSE engErr

\* The calls sendPostBlockFCU makes: the state lookup of the fallback, then
\* sendFCU with its own state lookup and, if that succeeds, the engine call.
StateRead(ok) == <<"GetLatestExecutionPayload", IF ok THEN "nil" ELSE "ErrStateRead">>

\* Variant: a refused forkchoice update is sent a second time.
FCUCalls_Retries(p, stOk1, stOk2, engErr) ==
    (IF p.kind = "unset" THEN <<StateRead(stOk1)>> ELSE <<>>)
        \o (IF ~FCUHead(p, stOk1).ok THEN <<>>
            ELSE <<StateRead(stOk2)>>
                     \o (IF ~stOk2 THEN <<>>
                         ELSE IF engErr = "nil"
                         THEN <<<<"NotifyForkchoiceUpdate", engErr>>>>
                         ELSE <<<<"NotifyForkchoiceUpdate", engErr>>,
                                <<"NotifyForkchoiceUpdate", engErr>>>>))

FCUCalls(p, stOk1, stOk2, engErr) ==
    (IF p.kind = "unset" THEN <<StateRead(stOk1)>> ELSE <<>>)
        \o (IF ~FCUHead(p, stOk1).ok THEN <<>>
            ELSE <<StateRead(stOk2)>>
                     \o (IF stOk2 THEN <<<<"NotifyForkchoiceUpdate", engErr>>>> ELSE <<>>))

\* Variant: the failures of the forkchoice update are not logged.
FCULogged_Silent(p, stOk1, stOk2, engErr) == {}

\* What sendPostBlockFCU logs: a failed fallback lookup, or sendFCU's error.
FCULogged(p, stOk1, stOk2, engErr) ==
    IF ~FCUHead(p, stOk1).ok
    THEN {"failed to get latest execution payload in postBlockProcess"}
    ELSE IF SendFCUError(stOk2, engErr) # "nil"
    THEN {"failed to send forkchoice update in postBlockProcess"}
    ELSE {}

\* Variant: the deferred call's error replaces a nil return value.
PBP_ReturnAfterDeferred_Propagates(r, fcuErr) == IF r = "nil" THEN fcuErr ELSE r

\* PostBlockProcess's return value once the deferred sendPostBlockFCU ran: the
\* deferred function has no result and assigns no named result.
PBP_ReturnAfterDeferred(r, fcuErr) == r

\* The deferred call: sendPostBlockFCU(ctx, payload) with the value `payload`
\* holds at the return, then the call is over.
PBP_Deferred ==
    /\ fn = "PostBlockProcess" /\ pc = "deferred"
    /\ trace' = Append(trace, <<"sendPostBlockFCU", payloadVar.kind>>)
    /\ \E stOk1 \in BOOLEAN, stOk2 \in BOOLEAN, engErr \in {"nil", "ErrEngineRPC"} :
        LET head == FCUHead(payloadVar, stOk1) IN
        /\ fcuTrace' = FCUCalls(payloadVar, stOk1, stOk2, engErr)
        /\ logged' = logged \cup FCULogged(payloadVar, stOk1, stOk2, engErr)
        /\ fcuLog' = IF head.ok /\ stOk2 THEN Append(fcuLog, FCURequest(head.hash))
                     ELSE fcuLog
        /\ ret' = PBP_ReturnAfterDeferred(ret,
                      IF head.ok THEN SendFCUError(stOk2, engErr)
                      ELSE "ErrStateRead")
    /\ pc' = "done"
    /\ UNCHANGED <<callsMade, fn, blk, task, ptPc, gErr, groupCtxDone, mut,
                   payloadVar, fcNodes, logRuns, cacheVars, verifyVars, depositVars>>

\* ------------------------------------------------------------------ Spec
Next ==
    \/ StartProcessBeaconBlock
    \/ VEP_NilChecks
    \/ VEP_ValidatePayload
    \/ VEP_NotifyNewPayload
    \/ ValidateBlockTask
    \/ Wait1
    \/ ProcessBlobsTask
    \/ ProcessBlockTask
    \/ Wait2
    \/ StartPostBlockProcess
    \/ PBP_NilChecks
    \/ PBP_InsertNode
    \/ PBP_ProcessLogs
    \/ PBP_Deferred

Spec == Init /\ [][Next]_vars

\* ------------------------------------------------------------- logs.Cache
\* The record of a call: what was called, and the fields before it. A cache
\* call leaves the pipeline alone.
Record(op, arg) ==
    /\ UNCHANGED <<pipeVars, verifyVars, depositVars>>
    /\ lastOp' = [op |-> op, arg |-> arg]
    /\ prevOp' = lastOp.op
    /\ pre' = [fields |-> CacheFields, pushedSince |-> pushedSince]
    /\ pre2' = pre.fields

\* Variant: a log of the last finalized block is processed again.
ShouldProcess_Inclusive(log) == log.BlockNumber >= lastFinalizedBlock

\* Cache.ShouldProcess(log)
ShouldProcess(log) == log.BlockNumber > lastFinalizedBlock

CallShouldProcess(blockNumber) ==
    /\ opRet' = [NoRet EXCEPT !.bool = ShouldProcess([BlockNumber |-> blockNumber])]
    /\ Record("ShouldProcess", blockNumber)
    /\ UNCHANGED <<finalStore, lastFinalizedBlock, processingStore, mark, pushedSince>>

\* Variant: a container the cache already holds is not stored again.
Push_Deduplicates(container) ==
    /\ Len(finalStore) + Len(processingStore) < MaxEntries
    /\ processingStore' =
        IF \E i \in 1..Len(processingStore) : processingStore[i] = container
        THEN processingStore
        ELSE Append(processingStore, container)
    /\ opRet' = [NoRet EXCEPT !.err = "nil"]
    /\ Record("Push", container)
    /\ pushedSince' = Append(pushedSince, container)
    /\ UNCHANGED <<finalStore, lastFinalizedBlock, mark>>

\* Variant: the container is put in front of the processing store.
Push_Prepends(container) ==
    /\ Len(finalStore) + Len(processingStore) < MaxEntries
    /\ processingStore' = <<container>> \o processingStore
    /\ opRet' = [NoRet EXCEPT !.err = "nil"]
    /\ Record("Push", container)
    /\ pushedSince' = Append(pushedSince, container)
    /\ UNCHANGED <<finalStore, lastFinalizedBlock, mark>>

\* Cache.Push(container)
Push(container) ==
    /\ Len(finalStore) + Len(processingStore) < MaxEntries
    /\ processingStore' = Append(processingStore, container)
    /\ opRet' = [NoRet EXCEPT !.err = "nil"]
    /\ Record("Push", container)
    /\ pushedSince' = Append(pushedSince, container)
    /\ UNCHANGED <<finalStore, lastFinalizedBlock, mark>>

\* Cache.LastFinalizedBlock()
LastFinalizedBlock ==
    /\ opRet' = [NoRet EXCEPT !.num = lastFinalizedBlock]
    /\ Record("LastFinalizedBlock", 0)
    /\ UNCHANGED <<finalStore, lastFinalizedBlock, processingStore, mark, pushedSince>>

\* Cache.SetLastFinalizedBlock(blockNumber)
SetLastFinalizedBlock(blockNumber) ==
    /\ lastFinalizedBlock' = blockNumber
    /\ finalStore' = finalStore \o processingStore
    /\ processingStore' = <<>>
    /\ opRet' = NoRet
    /\ Record("SetLastFinalizedBlock", blockNumber)
    /\ mark' = [finalStore |-> finalStore', lastFinalizedBlock |-> lastFinalizedBlock']
    /\ pushedSince' = <<>>

\* Variant: the processing store is not dropped.
Rollback_KeepsProcessing ==
    /\ processingStore' = processingStore
    /\ opRet' = NoRet
    /\ Record("Rollback", 0)
    /\ pushedSince' = <<>>
    /\ UNCHANGED <<finalStore, lastFinalizedBlock, mark>>

\* Cache.Rollback()
Rollback ==
    /\ processingStore' = <<>>
    /\ opRet' = NoRet
    /\ Record("Rollback", 0)
    /\ pushedSince' = <<>>
    /\ UNCHANGED <<finalStore, lastFinalizedBlock, mark>>

CacheNext ==
    \/ \E blockNumber \in BlockNumbers : CallShouldProcess(blockNumber)
    \/ \E container \in Containers : Push(container)
    \/ LastFinalizedBlock
    \/ \E blockNumber \in BlockNumbers : SetLastFinalizedBlock(blockNumber)
    \/ Rollback

CacheSpec == Init /\ [][CacheNext]_vars

\* ------------------------------------------------- a caller of logs.Cache
\* The caller the comments of Cache describe: it processes the logs of one
\* block at a time, calls ShouldProcess before Push, and ends the block with
\* SetLastFinalizedBlock(block number), or with Rollback after an error. A
\* block has one log here, and the value pushed for it is its block number.
CallerBlocks == BlockNumbers \ {0}
CallerIdle == lastOp.op \in {"new", "SetLastFinalizedBlock", "Rollback"}
CallerAtEndOfBlock ==
    \/ lastOp.op = "Push"
    \/ lastOp.op = "ShouldProcess" /\ ~opRet.bool

CallerChecksLog ==
    /\ CallerIdle
    /\ \E blockNumber \in CallerBlocks : CallShouldProcess(blockNumber)

CallerPushesLog ==
    /\ lastOp.op = "ShouldProcess" /\ opRet.bool
    /\ Push(lastOp.arg)

CallerFinalizesBlock ==
    /\ CallerAtEndOfBlock
    /\ SetLastFinalizedBlock(lastOp.arg)

CallerRollsBack ==
    /\ CallerAtEndOfBlock
    /\ Rollback

CallerNext ==
    \/ CallerChecksLog
    \/ CallerPushesLog
    \/ CallerFinalizesBlock
    \/ CallerRollsBack

CallerSpec == Init /\ [][CallerNext]_vars

\* --------------------------------------------------------- deposit.Service
\* eth1FollowDistance, as NewService sets it.
eth1FollowDistance == 1

\* Subtraction of unsigned integers: it wraps around.
UintModulus == 2 ^ UintBits
UintSub(a, b) == (a - b + UintModulus) % UintModulus

\* Variant: the follow distance is not subtracted.
DepositSlot_OfEvent(e) == e.slot

\* handleDepositEvent: slot := e.Block().GetSlot() - s.eth1FollowDistance
DepositSlot(e) == UintSub(e.slot, eth1FollowDistance)

\* Start: feed.Subscribe(ch), then the goroutine is started and nil returned.
DS_Start ==
    /\ dsPc = "new"
    /\ dsSubscribed' = dsSubscribed + 1
    /\ dsPc' = "select"
    /\ UNCHANGED <<dsCtxDone, dsUnsubscribed, dsReceived, dsEvents, dsEvent, dsDeposits,
                   dsCalls, dsStore, dsLogged, pipeVars, cacheVars, verifyVars>>

\* The owner of ctx cancels it.
DS_Cancel ==
    /\ ~dsCtxDone
    /\ dsCtxDone' = TRUE
    /\ UNCHANGED <<dsPc, dsSubscribed, dsUnsubscribed, dsReceived, dsEvents, dsEvent,
                   dsDeposits, dsCalls, dsStore, dsLogged, pipeVars, cacheVars,
                   verifyVars>>

\* Variant: the goroutine returns without the deferred Unsubscribe.
DS_Done_NoUnsubscribe ==
    /\ dsPc = "select" /\ dsCtxDone
    /\ dsPc' = "exited"
    /\ UNCHANGED <<dsCtxDone, dsSubscribed, dsUnsubscribed, dsReceived, dsEvents, dsEvent,
                   dsDeposits, dsCalls, dsStore, dsLogged, pipeVars, cacheVars,
                   verifyVars>>

\* select: case <-ctx.Done(): return, which runs the deferred Unsubscribe.
DS_Done ==
    /\ dsPc = "select" /\ dsCtxDone
    /\ dsUnsubscribed' = dsUnsubscribed + 1
    /\ dsPc' = "exited"
    /\ UNCHANGED <<dsCtxDone, dsSubscribed, dsReceived, dsEvents, dsEvent, dsDeposits,
                   dsCalls, dsStore, dsLogged, pipeVars, cacheVars, verifyVars>>

\* Variant: an event is taken from ch while a handler is still running.
DS_Receive_WhileHandling ==
    /\ dsPc \in {"select", "getDeposits", "enqueue"} /\ dsReceived < MaxEvents
    /\ \E slot \in 0..MaxEventSlot :
        /\ dsEvent' = [n |-> dsReceived + 1, slot |-> slot]
        /\ dsEvents' = Append(dsEvents, [n |-> dsReceived + 1, slot |-> slot])
    /\ dsReceived' = dsReceived + 1
    /\ dsPc' = "getDeposits"
    /\ UNCHANGED <<dsCtxDone, dsSubscribed, dsUnsubscribed, dsDeposits, dsCalls,
                   dsStore, dsLogged, pipeVars, cacheVars, verifyVars>>

\* select: case event := <-ch, when the feed sends an event; handleDepositEvent
\* is entered.
DS_Receive ==
    /\ dsPc = "select" /\ dsReceived < MaxEvents
    /\ \E slot \in 0..MaxEventSlot :
        /\ dsEvent' = [n |-> dsReceived + 1, slot |-> slot]
        /\ dsEvents' = Append(dsEvents, [n |-> dsReceived + 1, slot |-> slot])
    /\ dsReceived' = dsReceived + 1
    /\ dsPc' = "getDeposits"
    /\ UNCHANGED <<dsCtxDone, dsSubscribed, dsUnsubscribed, dsDeposits, dsCalls,
                   dsStore, dsLogged, pipeVars, cacheVars, verifyVars>>

\* Variant: the goroutine returns when a handler fails.
DS_AfterHandler_StopsOnError(err) == IF err = "nil" THEN "select" ELSE "exited"

\* The goroutine once handleDepositEvent returned err: the error is logged,
\* and the loop goes back to the select.
DS_AfterHandler(err) == "select"
DS_HandlerLogged(err) == IF err = "nil" THEN dsLogged ELSE Append(dsLogged, dsEvent.n)

\* A call of the handler of event e (whose context is e.Context()).
DepositCall(call, e, arg, deposits, result) ==
    [call |-> call, event |-> e.n, ctx |-> e.n, slot |-> e.slot, arg |-> arg,
     deposits |-> deposits, result |-> result]

\* handleDepositEvent: s.dc.GetDeposits(e.Context(), slot.Unwrap()); its error
\* is returned, and logged by the goroutine.
DS_GetDeposits ==
    /\ dsPc = "getDeposits"
    /\ \E r \in {"nil", "ErrGetDeposits"} :
        LET deposits == IF r = "nil"
                        THEN [event |-> dsEvent.n, slot |-> DepositSlot(dsEvent)]
                        ELSE NoDeposits
        IN /\ dsCalls' = Append(dsCalls,
                  DepositCall("GetDeposits", dsEvent, DepositSlot(dsEvent), deposits, r))
           /\ IF r = "nil"
              THEN /\ dsDeposits' = deposits
                   /\ dsPc' = "enqueue"
                   /\ dsLogged' = dsLogged
              ELSE /\ dsDeposits' = dsDeposits
                   /\ dsPc' = DS_AfterHandler(r)
                   /\ dsLogged' = DS_HandlerLogged(r)
    /\ UNCHANGED <<dsCtxDone, dsSubscribed, dsUnsubscribed, dsReceived, dsEvents, dsEvent,
                   dsStore, pipeVars, cacheVars, verifyVars>>

\* handleDepositEvent: s.sb.DepositStore(e.Context()).EnqueueDeposits(deposits);
\* its error is returned, and logged by the goroutine.
DS_EnqueueDeposits ==
    /\ dsPc = "enqueue"
    /\ \E r \in {"nil", "ErrEnqueueDeposits"} :
        /\ dsCalls' = Append(dsCalls,
               DepositCall("EnqueueDeposits", dsEvent, dsDeposits.slot, dsDeposits, r))
        /\ dsStore' = IF r = "nil" THEN Append(dsStore, dsDeposits) ELSE dsStore
        /\ dsLogged' = DS_HandlerLogged(r)
        /\ dsPc' = DS_AfterHandler(r)
    /\ UNCHANGED <<dsCtxDone, dsSubscribed, dsUnsubscribed, dsReceived, dsEvents, dsEvent,
                   dsDeposits, pipeVars, cacheVars, verifyVars>>

DepositNext ==
    \/ DS_Start
    \/ DS_Cancel
    \/ DS_Done
    \/ DS_Receive
    \/ DS_GetDeposits
    \/ DS_EnqueueDeposits

DepositSpec == Init /\ [][DepositNext]_vars

\* The calls of the handler return, and the select of the goroutine, which
\* chooses at random among its ready cases, does not leave the cancelled
\* context aside for ever.
DepositFairness ==
    /\ WF_vars(DS_GetDeposits)
    /\ WF_vars(DS_EnqueueDeposits)
    /\ SF_vars(DS_Done)

DepositLiveSpec == DepositSpec /\ DepositFairness

\* ================================================================= claims
\* groupCtx is cancelled by the group; nothing in ProcessBeaconBlock cancels
\* the caller's ctx.
CtxDone(c) == IF c = "groupCtx" THEN groupCtxDone ELSE FALSE

\* C1: every PostBlockProcess call invokes sendPostBlockFCU exactly once, on
\* every exit path, and as the last action of the call: never before the call
\* has reached its return, exactly once and last when the call is over.
C1_FCUExactlyOnceAndLast ==
    fn = "PostBlockProcess" =>
        /\ pc # "done" => ~Called("sendPostBlockFCU")
        /\ pc = "done" =>
            /\ ret # "pending"
            /\ NumCalled("sendPostBlockFCU") = 1
            /\ trace[Len(trace)][1] = "sendPostBlockFCU"

\* The log-processing error path ran to its end: InsertNode, log processing,
\* then the forkchoice update.
C1_Witness ==
    /\ fn = "PostBlockProcess" /\ pc = "done"
    /\ ret = "ErrProcessLogs"
    /\ Len(trace) = 3

\* C2: the wave-2 tasks start only after both wave-1 tasks returned nil; when
\* a wave-1 task failed, ProcessBlobs and ProcessBlock are not called and
\* neither the beacon state nor the availability store is written.
C2_Wave2OnlyAfterWave1 ==
    fn = "ProcessBeaconBlock" =>
        /\ (\E t \in Wave2 : task[t] # "none") => \A t \in Wave1 : task[t] = "nil"
        /\ (\E t \in Wave1 : IsErr(task[t])) =>
            /\ ~Called("ProcessBlobs")
            /\ ~Called("ProcessBlock")
            /\ \A t \in Wave2 : task[t] = "none"
            /\ mut = {}

\* The payload validation failed (engine says invalid) after ValidateBlock
\* passed, and the call has returned.
C2_Witness ==
    /\ fn = "ProcessBeaconBlock" /\ pc = "done"
    /\ task[VEP] = "ErrInvalidPayload"
    /\ task[VB] = "nil"

\* C3: ProcessBeaconBlock returns nil iff all four tasks returned nil; when a
\* task failed it returns an error that a task of the failing wave returned.
C3_NilIffAllTasksNil ==
    (fn = "ProcessBeaconBlock" /\ pc = "done") =>
        /\ (ret = "nil") <=> (\A t \in Tasks : task[t] = "nil")
        /\ (\E t \in Wave1 : IsErr(task[t])) =>
            /\ IsErr(ret)
            /\ \E t \in Wave1 : ret = task[t]
        /\ ((\A t \in Wave1 : task[t] = "nil") /\ (\E t \in Wave2 : IsErr(task[t]))) =>
            /\ IsErr(ret)
            /\ \E t \in Wave2 : ret = task[t]

\* Both wave-2 tasks failed and the call returned the error of ProcessBlobs.
C3_Witness ==
    /\ fn = "ProcessBeaconBlock" /\ pc = "done"
    /\ task[PBL] = "ErrProcessBlobs"
    /\ task[PBK] = "ErrProcessBlock"
    /\ ret = "ErrProcessBlobs"

\* C4: when a task of a wave has failed while its sibling is still running,
\* the sibling works with the group context and that context is cancelled; and
\* the group context is not cancelled while both tasks of a wave are still
\* running with no failure among them.
C4_SiblingCancelledViaGroupCtx ==
    fn = "ProcessBeaconBlock" =>
        \A w \in Waves : \A t \in w, u \in w :
            t # u =>
                /\ (IsErr(task[t]) /\ task[u] = "running") =>
                    /\ TaskContext(u) = "groupCtx"
                    /\ CtxDone(TaskContext(u))
                /\ (task[t] = "running" /\ task[u] = "running") => ~groupCtxDone

\* C5: no step of a ProcessBeaconBlock call inserts a forkchoice node, sends
\* a forkchoice update to the engine or triggers log processing: these
\* collaborators change only in steps of PostBlockProcess, and the calls of a
\* ProcessBeaconBlock call never include them.
C5_NoForkchoiceOrLogEffects ==
    [][ /\ (<<fcNodes, fcuLog, logRuns>>' # <<fcNodes, fcuLog, logRuns>>) =>
            (fn = "PostBlockProcess" /\ fn' = "PostBlockProcess")
        /\ fn' = "ProcessBeaconBlock" =>
            \A i \in 1..Len(trace') :
                trace'[i][1] \notin {"InsertNode", "ProcessLogsInETH1Block",
                                     "sendPostBlockFCU", "NotifyForkchoiceUpdate"}
      ]_vars

\* A ProcessBeaconBlock call succeeded after an earlier PostBlockProcess had
\* inserted a node, processed logs and sent a forkchoice update.
C5_Witness ==
    /\ fn = "ProcessBeaconBlock" /\ pc = "done" /\ ret = "nil"
    /\ Len(fcuLog) = 1 /\ Len(logRuns) = 1 /\ fcNodes # {}

\* C6 as stated: in a call in which ValidateBlock fails, NotifyNewPayload is
\* not called.
C6_EngineNeverContacted ==
    (fn = "ProcessBeaconBlock" /\ IsErr(task[VB])) => ~Called("NotifyNewPayload")

\* C6 as amended: in a call in which ValidateBlock fails, NotifyNewPayload is
\* called at most once, only for a block with a body and a payload and only
\* after payload verification returned nil, and no wave-2 task runs.
C6_EngineContactedAtMostOnce ==
    (fn = "ProcessBeaconBlock" /\ IsErr(task[VB])) =>
        /\ NumCalled("NotifyNewPayload") <= 1
        /\ \A j \in 1..Len(trace) :
            trace[j][1] = "NotifyNewPayload" =>
                /\ ~PayloadIsNil(blk)
                /\ \E i \in 1..(j - 1) : trace[i] = <<"ValidatePayload", "nil">>
        /\ ~Called("ProcessBlobs") /\ ~Called("ProcessBlock")

\* ValidateBlock failed, the engine was notified of the payload all the same,
\* and the call returned ValidateBlock's error.
C6_Witness ==
    /\ fn = "ProcessBeaconBlock" /\ pc = "done"
    /\ ret = "ErrValidateBlock"
    /\ Called("NotifyNewPayload")

\* C7: after any SetLastFinalizedBlock(N), lastFinalizedBlock = N, the
\* processing store is empty, and finalStore is its value before the call
\* followed by exactly the containers pushed since the most recent
\* SetLastFinalizedBlock or Rollback, in push order.
C7_FinalizeCommitsExactlyThePushed ==
    lastOp.op = "SetLastFinalizedBlock" =>
        /\ lastFinalizedBlock = lastOp.arg
        /\ processingStore = <<>>
        /\ finalStore = pre.fields.finalStore \o pre.pushedSince

\* A finalize of two different containers pushed after a rollback, onto a
\* final store that already held one.
C7_Witness ==
    /\ lastOp.op = "SetLastFinalizedBlock"
    /\ Len(pre.pushedSince) = 2
    /\ pre.pushedSince[1] # pre.pushedSince[2]
    /\ pre.fields.finalStore # <<>>
    /\ lastFinalizedBlock = 101

\* C8: lastFinalizedBlock never decreases, whatever the arguments of the
\* calls (the value LastFinalizedBlock() returns is this field).
C8_LastFinalizedBlockMonotonic ==
    [][lastFinalizedBlock' >= lastFinalizedBlock]_vars

\* C9: after a Rollback, finalStore and lastFinalizedBlock are what they were
\* when the cache was made or last finalized (so before the pushes), and the
\* processing store is empty; a SetLastFinalizedBlock that follows the
\* Rollback commits none of the containers it dropped.
C9_RollbackIsolation ==
    /\ lastOp.op = "Rollback" =>
        /\ finalStore = mark.finalStore
        /\ finalStore = pre.fields.finalStore
        /\ lastFinalizedBlock = mark.lastFinalizedBlock
        /\ processingStore = <<>>
    /\ (lastOp.op = "SetLastFinalizedBlock" /\ prevOp = "Rollback") =>
        finalStore = pre2.finalStore

\* Two containers were pushed onto a cache with a finalized one, rolled back,
\* and SetLastFinalizedBlock was called next.
C9_Witness ==
    /\ lastOp.op = "SetLastFinalizedBlock" /\ prevOp = "Rollback"
    /\ Len(pre2.processingStore) = 2
    /\ pre2.finalStore # <<>>

\* C10: ShouldProcess(log) returns true iff log.BlockNumber >
\* lastFinalizedBlock, in every reachable state of the cache, and changes no
\* field of the cache.
C10_ShouldProcessIffNewer ==
    lastOp.op = "ShouldProcess" =>
        /\ opRet.bool <=> (lastOp.arg > lastFinalizedBlock)
        /\ lastOp.arg <= lastFinalizedBlock => ~opRet.bool
        /\ CacheFields = pre.fields

\* With lastFinalizedBlock = 100 and a non-empty cache, ShouldProcess of a log
\* of block 100 returned false.
C10_Witness ==
    /\ lastOp = [op |-> "ShouldProcess", arg |-> 100]
    /\ lastFinalizedBlock = 100
    /\ ~opRet.bool
    /\ finalStore # <<>>

\* C11: when all state reads succeed, VerifyPayload returns nil iff the
\* parent hash equals the block hash of the state's latest execution payload
\* header, the previous RANDAO equals the mix at index SlotToEpoch(slot) mod
\* EpochsPerHistoricalVector, and the number of withdrawals is at most
\* MaxWithdrawalsPerPayload; 16 withdrawals pass, 17 fail with the
\* too-many-withdrawals error carrying 16 and 17.
C11_VerifyPayloadIffRulesHold ==
    (vpPc = "returned" /\ vpOut.err # "none" /\ vpSt.failing = {}) =>
        LET parentOk == vpPayload.parentHash = vpSt.headerHash
            randaoOk == vpPayload.prevRandao =
                vpSt.randaoMixes[(vpSt.slot \div SlotsPerEpoch) % EpochsPerHistoricalVector]
            countOk == vpPayload.withdrawals <= MaxWithdrawalsPerPayload
        IN /\ (vpOut.err = "nil") <=> (parentOk /\ randaoOk /\ countOk)
           /\ (parentOk /\ randaoOk /\ vpPayload.withdrawals = 16) => vpOut.err = "nil"
           /\ (parentOk /\ randaoOk /\ vpPayload.withdrawals = 17) =>
                /\ vpOut.err = "ErrTooManyWithdrawals"
                /\ vpOut.first = 16
                /\ vpOut.second = 17

\* A payload with 17 withdrawals, a matching parent hash and a matching
\* RANDAO mix read at a wrapped index (epoch 2, index 0) was rejected.
C11_Witness ==
    /\ vpPc = "returned" /\ vpSt.failing = {}
    /\ vpSt.slot = 4
    /\ vpSt.randaoMixes[0] # vpSt.randaoMixes[1]
    /\ vpPayload.withdrawals = 17
    /\ vpOut = [err |-> "ErrTooManyWithdrawals", first |-> 16, second |-> 17,
                reads |-> StateReads]

\* C12: the rules are verified in the order parent hash, RANDAO mix, number of
\* withdrawals, and the first violated rule gives the error: a parent mismatch
\* wins over everything and is returned after the header read alone (no slot
\* or RANDAO read is made), a RANDAO mismatch wins over too many withdrawals.
C12_FirstViolatedRuleWins ==
    (vpPc = "returned" /\ vpOut.err # "none"
        /\ "GetLatestExecutionPayloadHeader" \notin vpSt.failing) =>
        LET parentOk == vpPayload.parentHash = vpSt.headerHash
            randaoOk == vpPayload.prevRandao =
                vpSt.randaoMixes[(vpSt.slot \div SlotsPerEpoch) % EpochsPerHistoricalVector]
        IN /\ ~parentOk =>
                /\ vpOut.err = "ErrParentNotFinalized"
                /\ vpOut.first = vpPayload.parentHash
                /\ vpOut.second = vpSt.headerHash
                /\ vpOut.reads = <<"GetLatestExecutionPayloadHeader">>
           /\ (parentOk /\ vpSt.failing = {} /\ ~randaoOk) =>
                /\ vpOut.err = "ErrRandaoMismatch"
                /\ vpOut.second = vpPayload.prevRandao
           /\ vpOut.err = "ErrTooManyWithdrawals" => (parentOk /\ randaoOk)

\* A payload that violates all three rules, against a state whose slot and
\* RANDAO reads would fail, was rejected for its parent hash.
C12_Witness ==
    /\ vpPc = "returned"
    /\ vpSt.failing = {"GetSlot", "GetRandaoMixAtIndex"}
    /\ vpPayload.parentHash # vpSt.headerHash
    /\ vpPayload.prevRandao #
         vpSt.randaoMixes[(vpSt.slot \div SlotsPerEpoch) % EpochsPerHistoricalVector]
    /\ vpPayload.withdrawals = 17
    /\ vpOut.err = "ErrParentNotFinalized"

\* C13: ValidateExecutionPayloadOnBlk stops at the first failing step: a nil
\* body gives the nil-block-body error, else a nil payload gives the
\* nil-payload error, and in both cases neither the payload verifier nor the
\* engine is called; otherwise the verifier runs, and NotifyNewPayload is
\* called only after the verifier returned nil.
VEPReturned == fn = "ProcessBeaconBlock" /\ task[VEP] \notin {"none", "running"}

C13_VEPStopsAtFirstFailure ==
    /\ VEPReturned =>
        /\ BodyIsNil(blk) =>
            /\ task[VEP] = "ErrNilBlkBody"
            /\ ~Called("ValidatePayload") /\ ~Called("NotifyNewPayload")
        /\ (~BodyIsNil(blk) /\ PayloadIsNil(blk)) =>
            /\ task[VEP] = "ErrNilPayload"
            /\ ~Called("ValidatePayload") /\ ~Called("NotifyNewPayload")
        /\ ~PayloadIsNil(blk) => Called("ValidatePayload")
        /\ (\E i \in 1..Len(trace) :
                trace[i][1] = "ValidatePayload" /\ trace[i][2] # "nil") =>
            /\ task[VEP] = "ErrValidatePayload"
            /\ ~Called("NotifyNewPayload")
    /\ fn = "ProcessBeaconBlock" =>
        \A i \in 1..Len(trace) : trace[i][1] = "NotifyNewPayload" =>
            /\ ~BodyIsNil(blk) /\ ~PayloadIsNil(blk)
            /\ \E j \in 1..(i - 1) :
                trace[j][1] = "ValidatePayload" /\ trace[j][2] = "nil"

\* A block whose body has a nil payload was refused before the verifier and
\* the engine were called.
C13_Witness ==
    /\ VEPReturned
    /\ blk.shape = "nilPayload"
    /\ task[VEP] = "ErrNilPayload"
    /\ ~Called("ValidatePayload") /\ ~Called("NotifyNewPayload")

\* C14: after NotifyNewPayload, ValidateExecutionPayloadOnBlk returns the
\* engine's error unchanged whenever there is one, whatever the validity flag;
\* with no error and an invalid payload it returns the invalid-payload error,
\* which is never the engine's error; it returns nil iff there is no error and
\* the payload is valid.
C14_InvalidPayloadIsNotATransportError ==
    fn = "ProcessBeaconBlock" =>
        \A i \in 1..Len(trace) : trace[i][1] = "NotifyNewPayload" =>
            LET engine == trace[i][3] IN
            /\ task[VEP] = trace[i][2]
            /\ (engine.err = "nil" /\ ~engine.isValidPayload) =>
                /\ task[VEP] = "ErrInvalidPayload"
                /\ task[VEP] # "ErrEngineRPC"
            /\ engine.err # "nil" => task[VEP] = engine.err
            /\ (task[VEP] = "nil") <=> (engine.err = "nil" /\ engine.isValidPayload)

\* The engine answered without an error that the payload is not valid.
C14_Witness ==
    /\ VEPReturned
    /\ \E i \in 1..Len(trace) :
        /\ trace[i][1] = "NotifyNewPayload"
        /\ trace[i][3] = [isValidPayload |-> FALSE, err |-> "nil"]
    /\ task[VEP] = "ErrInvalidPayload"

\* The deferred sendPostBlockFCU of the current PostBlockProcess call is over,
\* and it reached the engine.
PBPDone == fn = "PostBlockProcess" /\ pc = "done"
FCUSent == \E i \in 1..Len(fcuTrace) : fcuTrace[i][1] = "NotifyForkchoiceUpdate"
FCUFailed == \E i \in 1..Len(fcuTrace) : fcuTrace[i][2] # "nil"

\* C15: every forkchoice update sent has SafeBlockHash = FinalizedBlockHash =
\* the hash of the state's latest execution payload, and its HeadBlockHash is
\* the block hash of the payload handed to sendPostBlockFCU when that payload
\* is not nil (payload != nil), else the hash of the state's latest payload.
C15_ForkchoiceTriple ==
    /\ \A i \in 1..Len(fcuLog) :
        /\ fcuLog[i].SafeBlockHash = LatestHash
        /\ fcuLog[i].FinalizedBlockHash = LatestHash
    /\ (PBPDone /\ FCUSent) =>
        fcuLog[Len(fcuLog)].HeadBlockHash =
            IF payloadVar.kind # "unset" THEN payloadVar.hash ELSE LatestHash

\* An update was sent for a payload of the block, whose hash is not the
\* state's latest.
C15_Witness ==
    /\ PBPDone /\ FCUSent
    /\ payloadVar.kind = "payload"
    /\ fcuLog[Len(fcuLog)] = [HeadBlockHash |-> blk.hash,
                              SafeBlockHash |-> LatestHash,
                              FinalizedBlockHash |-> LatestHash]

\* C16: the deferred forkchoice update changes neither the value
\* PostBlockProcess returns nor the nodes inserted and the log runs made,
\* whether it succeeds or fails.
C16_FCUFailureNotPropagated ==
    [][(fn = "PostBlockProcess" /\ pc = "deferred") =>
        /\ ret' = ret
        /\ fcNodes' = fcNodes
        /\ logRuns' = logRuns]_vars

\* PostBlockProcess returned nil for an inserted and log-processed payload
\* although the engine refused the forkchoice update.
C16_Witness ==
    /\ PBPDone /\ FCUSent /\ FCUFailed
    /\ ret = "nil"
    /\ payloadVar.kind = "payload"
    /\ payloadVar.hash \in fcNodes
    /\ Called("ProcessLogsInETH1Block")

\* C17: on each early exit of PostBlockProcess (nil block, nil body, nil
\* payload) it returns nil, InsertNode and the log processing are not called,
\* and the deferred forkchoice update gets a nil payload, so that the head it
\* sends is the hash of the state's latest execution payload.
C17_EarlyExitFallsBackToLatestPayload ==
    (PBPDone /\ (BlkIsNil(blk) \/ BodyIsNil(blk) \/ PayloadIsNil(blk))) =>
        /\ ret = "nil"
        /\ ~Called("InsertNode") /\ ~Called("ProcessLogsInETH1Block")
        /\ Called("sendPostBlockFCU")
        /\ FCUSent => fcuLog[Len(fcuLog)].HeadBlockHash = LatestHash

\* C18: when the log processing fails, PostBlockProcess returns that error,
\* and the deferred forkchoice update still runs, with the payload's block
\* hash as head.
LogsFailed ==
    \E i \in 1..Len(trace) :
        trace[i][1] = "ProcessLogsInETH1Block" /\ trace[i][2] # "nil"

C18_LogErrorReturnedAndFCUStillRuns ==
    (PBPDone /\ LogsFailed) =>
        /\ ret = "ErrProcessLogs"
        /\ trace[Len(trace)] = <<"sendPostBlockFCU", "payload">>
        /\ payloadVar = RealPayload(blk.hash)
        /\ Len(fcuTrace) >= 1
        /\ fcuTrace[1][1] = "GetLatestExecutionPayload"
        /\ FCUSent => fcuLog[Len(fcuLog)].HeadBlockHash = blk.hash

\* The log processing failed and the forkchoice update was sent.
C18_Witness ==
    /\ PBPDone /\ LogsFailed /\ FCUSent
    /\ ret = "ErrProcessLogs"
    /\ fcuLog[Len(fcuLog)].HeadBlockHash = blk.hash

\* C19 as stated: neither an error of the forkchoice update nor an error of
\* the log processing is returned by PostBlockProcess.
C19_BothErrorsSwallowed ==
    PBPDone =>
        ret \notin {"ErrProcessLogs", "ErrEngineRPC", "ErrGetLatestExecutionPayload",
                    "ErrStateRead"}

\* C19: an error of the forkchoice update is logged and not returned; an
\* error of the log processing is logged and returned.
C19_FCUErrorSwallowedLogErrorReturned ==
    PBPDone =>
        /\ ret \notin {"ErrEngineRPC", "ErrGetLatestExecutionPayload", "ErrStateRead"}
        /\ FCUFailed =>
            logged \cap {"failed to get latest execution payload in postBlockProcess",
                         "failed to send forkchoice update in postBlockProcess"} # {}
        /\ LogsFailed =>
            /\ "failed to process logs" \in logged
            /\ ret = "ErrProcessLogs"

\* Both failed: the log processing, whose error was returned, and then the
\* forkchoice update, whose error was logged only.
C19_Witness ==
    /\ PBPDone /\ LogsFailed /\ FCUFailed
    /\ ret = "ErrProcessLogs"
    /\ logged = {"failed to process logs",
                 "failed to send forkchoice update in postBlockProcess"}

\* C20: when the slot of the event's block is smaller than
\* eth1FollowDistance, handleDepositEvent fails and GetDeposits is not called:
\* no wrapped-around slot is queried.
C20_UnderflowRejected ==
    (dsEvent.n > 0 /\ dsEvent.slot < eth1FollowDistance) =>
        /\ \A i \in 1..Len(dsCalls) :
            ~(dsCalls[i].call = "GetDeposits" /\ dsCalls[i].event = dsEvent.n)
        /\ dsPc # "getDeposits" =>
            \E k \in 1..Len(dsLogged) : dsLogged[k] = dsEvent.n
        /\ \A i \in 1..Len(dsCalls) : dsCalls[i].arg # UintModulus - 1

\* C24: a block for which IsNil() holds is a successful no-op in every stage:
\* ValidateExecutionPayloadOnBlk and PostBlockProcess return nil for it, and
\* ProcessBeaconBlock returns nil when its other tasks do, without a call of
\* the payload verifier, NotifyNewPayload, InsertNode or the log processing.
C24_NilBlockIsNoOpEverywhere ==
    BlkIsNil(blk) =>
        /\ ~Called("ValidatePayload") /\ ~Called("NotifyNewPayload")
        /\ ~Called("InsertNode") /\ ~Called("ProcessLogsInETH1Block")
        /\ VEPReturned => task[VEP] = "nil"
        /\ (fn = "ProcessBeaconBlock" /\ pc = "done" /\ task[VB] = "nil") =>
            ret \notin {"ErrNilBlkBody", "ErrNilPayload"}
        /\ PBPDone => ret = "nil"

\* C26: in a PostBlockProcess call InsertNode and the log processing are each
\* called at most once, the log processing only after InsertNode returned nil
\* and for the hash inserted; when InsertNode fails its error is returned, the
\* logs are not processed, and the deferred forkchoice update still runs with
\* the payload's block hash as head.
InsertFailed ==
    \E i \in 1..Len(trace) : trace[i][1] = "InsertNode" /\ trace[i][2] # "nil"

C26_InsertNodeBeforeLogs ==
    fn = "PostBlockProcess" =>
        /\ NumCalled("InsertNode") <= 1
        /\ NumCalled("ProcessLogsInETH1Block") <= 1
        /\ \A i \in 1..Len(trace) : trace[i][1] = "ProcessLogsInETH1Block" =>
            /\ \E j \in 1..(i - 1) : trace[j][1] = "InsertNode" /\ trace[j][2] = "nil"
            /\ logRuns[Len(logRuns)] = payloadVar.hash
            /\ payloadVar.hash \in fcNodes
        /\ Called("InsertNode") => payloadVar = RealPayload(blk.hash)
        /\ InsertFailed => ~Called("ProcessLogsInETH1Block")
        /\ (PBPDone /\ InsertFailed) =>
            /\ ret = "ErrInsertNode"
            /\ trace[Len(trace)] = <<"sendPostBlockFCU", "payload">>
            /\ Len(fcuTrace) >= 1
            /\ FCUSent => fcuLog[Len(fcuLog)].HeadBlockHash = blk.hash

\* InsertNode failed, and the forkchoice update was sent for the block's
\* payload all the same.
C26_Witness ==
    /\ PBPDone /\ InsertFailed /\ FCUSent
    /\ ret = "ErrInsertNode"
    /\ ~Called("ProcessLogsInETH1Block")
    /\ fcuLog[Len(fcuLog)].HeadBlockHash = blk.hash

\* C27: a sendPostBlockFCU invocation calls NotifyForkchoiceUpdate at most
\* once, as its last call (no retry after an engine error), and not at all
\* when a read of the state's latest execution payload failed.
C27_AtMostOneForkchoiceUpdate ==
    /\ Cardinality({i \in 1..Len(fcuTrace) :
                        fcuTrace[i][1] = "NotifyForkchoiceUpdate"}) <= 1
    /\ \A i \in 1..Len(fcuTrace) :
        /\ fcuTrace[i][1] = "NotifyForkchoiceUpdate" => i = Len(fcuTrace)
        /\ (fcuTrace[i][1] = "GetLatestExecutionPayload" /\ fcuTrace[i][2] # "nil") =>
            /\ ~FCUSent
            /\ i = Len(fcuTrace)

\* The engine refused the one forkchoice update of the call.
C27_Witness ==
    /\ PBPDone
    /\ fcuTrace[Len(fcuTrace)] = <<"NotifyForkchoiceUpdate", "ErrEngineRPC">>
    /\ "failed to send forkchoice update in postBlockProcess" \in logged

\* C25: finalStore changes only at SetLastFinalizedBlock and only by growing
\* at its end; Push, Rollback, ShouldProcess and LastFinalizedBlock leave
\* finalStore and lastFinalizedBlock alone; Push returns nil and appends its
\* one container at the end of the processing store, whatever the cache
\* holds; so the containers pushed since the last SetLastFinalizedBlock or
\* Rollback are in the processing store, and finalStore is what the last
\* SetLastFinalizedBlock left.
C25_FinalStoreGrowsOnlyAtFinalize ==
    /\ Len(pre.fields.finalStore) <= Len(finalStore)
    /\ SubSeq(finalStore, 1, Len(pre.fields.finalStore)) = pre.fields.finalStore
    /\ lastOp.op \in {"Push", "Rollback", "ShouldProcess", "LastFinalizedBlock"} =>
        /\ finalStore = pre.fields.finalStore
        /\ lastFinalizedBlock = pre.fields.lastFinalizedBlock
    /\ lastOp.op = "Push" =>
        /\ opRet.err = "nil"
        /\ processingStore = Append(pre.fields.processingStore, lastOp.arg)
    /\ finalStore = mark.finalStore
    /\ processingStore = pushedSince

\* A container that is already in both stores was pushed once more, and is
\* not in finalStore a second time.
C25_Witness ==
    /\ lastOp.op = "Push"
    /\ finalStore = <<lastOp.arg>>
    /\ processingStore = <<lastOp.arg, lastOp.arg>>

\* C28: for a caller that follows the protocol of the cache, whatever the
\* order of the blocks it processes, no log is in finalStore twice.
C28_NoLogCommittedTwice ==
    \A i \in 1..Len(finalStore) : \A j \in 1..Len(finalStore) :
        finalStore[i] = finalStore[j] => i = j

\* The calls of one kind made for event n, and the deposits of event n in the
\* deposit store.
CallsOf(call, n) ==
    {i \in 1..Len(dsCalls) : dsCalls[i].call = call /\ dsCalls[i].event = n}
StoredOf(n) == {k \in 1..Len(dsStore) : dsStore[k].event = n}
AtStep(n, step) == dsEvent.n = n /\ dsPc = step
\* The handler of event n has returned.
HandlerReturned(n) ==
    \/ \E i \in CallsOf("GetDeposits", n) : dsCalls[i].result # "nil"
    \/ CallsOf("EnqueueDeposits", n) # {}

\* C21: for an event whose slot is at least eth1FollowDistance, GetDeposits
\* is called exactly once, with the slot minus eth1FollowDistance; if it
\* succeeds, exactly the deposits it returned are enqueued, once, after the
\* retrieval, with the context of the same event; otherwise nothing is.
C21_RetrieveThenEnqueueOnce ==
    \A k \in 1..Len(dsEvents) :
        LET e == dsEvents[k]
            gets == CallsOf("GetDeposits", e.n)
            enqs == CallsOf("EnqueueDeposits", e.n)
        IN e.slot >= eth1FollowDistance =>
            /\ Cardinality(gets) = IF AtStep(e.n, "getDeposits") THEN 0 ELSE 1
            /\ \A i \in gets :
                /\ dsCalls[i].arg = e.slot - eth1FollowDistance
                /\ dsCalls[i].ctx = e.n
            /\ Cardinality(enqs) =
                IF (\E i \in gets : dsCalls[i].result = "nil") /\ ~AtStep(e.n, "enqueue")
                THEN 1 ELSE 0
            /\ \A j \in enqs : \E i \in gets :
                /\ i < j
                /\ dsCalls[i].result = "nil"
                /\ dsCalls[j].deposits = dsCalls[i].deposits
                /\ dsCalls[j].ctx = e.n
            /\ Cardinality(StoredOf(e.n)) =
                IF \E j \in enqs : dsCalls[j].result = "nil" THEN 1 ELSE 0
            /\ \A x \in StoredOf(e.n) : \E j \in enqs : dsStore[x] = dsCalls[j].deposits

\* The deposits of slot 1, retrieved for an event of slot 2, are in the store.
C21_Witness ==
    /\ dsEvent.slot = 2
    /\ Len(dsCalls) = 2
    /\ dsCalls[1].call = "GetDeposits" /\ dsCalls[1].arg = 1
    /\ dsCalls[2].call = "EnqueueDeposits"
    /\ dsStore = <<[event |-> 1, slot |-> 1]>>

\* C22: when GetDeposits or EnqueueDeposits fails for an event, the event is
\* dropped: the failed call is the last one made for it and is not made again,
\* none of its deposits is in the store, the error is logged once, and the
\* goroutine goes on: it exits only on a cancelled context.
C22_FailedEventDropped ==
    /\ \A i \in 1..Len(dsCalls) : dsCalls[i].result # "nil" =>
        LET n == dsCalls[i].event IN
        /\ \A j \in 1..Len(dsCalls) : j > i => dsCalls[j].event > n
        /\ Cardinality(CallsOf(dsCalls[i].call, n)) = 1
        /\ dsCalls[i].call = "GetDeposits" => CallsOf("EnqueueDeposits", n) = {}
        /\ StoredOf(n) = {}
        /\ Cardinality({k \in 1..Len(dsLogged) : dsLogged[k] = n}) = 1
        /\ dsPc \in {"select", "getDeposits", "enqueue"} \/ dsCtxDone
    /\ dsPc = "exited" => dsCtxDone
    /\ \A k \in 1..Len(dsLogged) :
        \E i \in 1..Len(dsCalls) :
            dsCalls[i].event = dsLogged[k] /\ dsCalls[i].result # "nil"

\* The retrieval failed for the first event, and the deposits of the second
\* event were enqueued.
C22_Witness ==
    /\ Len(dsCalls) = 3
    /\ dsCalls[1].result = "ErrGetDeposits"
    /\ dsCalls[2].event = 2 /\ dsCalls[3].event = 2
    /\ dsLogged = <<1>>
    /\ Len(dsStore) = 1 /\ dsStore[1].event = 2

\* C23: Start subscribes once; the goroutine unsubscribes at most once, and
\* only when it exits on the cancelled context; once the context is cancelled
\* the goroutine eventually exits, and has then unsubscribed once.
C23_UnsubscribeOnceAfterCancel ==
    /\ [](dsPc # "new" => dsSubscribed = 1)
    /\ [](dsPc = "new" => dsSubscribed = 0)
    /\ [](dsUnsubscribed <= 1)
    /\ [](dsUnsubscribed = 1 => (dsCtxDone /\ dsPc = "exited"))
    /\ [](dsPc = "exited" => dsUnsubscribed = 1)
    /\ ((dsPc # "new" /\ dsCtxDone) ~> (dsPc = "exited" /\ dsUnsubscribed = 1))

\* The goroutine exited after it enqueued the deposits of an event.
C23_Witness ==
    /\ dsPc = "exited" /\ dsCtxDone
    /\ dsSubscribed = 1 /\ dsUnsubscribed = 1
    /\ Len(dsStore) = 1

\* C29: events are handled one at a time: the calls made for an event all
\* come before those of the next one, the handler of an event has returned
\* when the next event is received or the goroutine is back at its select, no
\* call is made twice for an event, and the deposits are in the store in the
\* order of the events.
C29_OneEventAtATime ==
    /\ dsReceived = Len(dsEvents)
    /\ \A k \in 1..Len(dsEvents) : dsEvents[k].n = k
    /\ \A i \in 1..Len(dsCalls) : \A j \in 1..Len(dsCalls) :
        i < j => dsCalls[i].event <= dsCalls[j].event
    /\ \A n \in 1..dsReceived :
        /\ Cardinality(CallsOf("GetDeposits", n)) <= 1
        /\ Cardinality(CallsOf("EnqueueDeposits", n)) <= 1
        /\ (n < dsReceived \/ dsPc \in {"select", "exited"}) => HandlerReturned(n)
    /\ dsPc \in {"getDeposits", "enqueue"} =>
        (dsEvent.n = dsReceived /\ ~HandlerReturned(dsReceived))
    /\ \A a \in 1..Len(dsStore) : \A b \in 1..Len(dsStore) :
        a < b => dsStore[a].event < dsStore[b].event

\* Two events were delivered, and their deposits are in the store in that
\* order.
C29_Witness ==
    /\ dsReceived = 2
    /\ Len(dsStore) = 2
    /\ dsStore[1].event = 1 /\ dsStore[2].event = 2
    /\ dsPc = "select"

====
